---- MODULE Spec2Model ----
(***************************************************************************)
(* Asist.io API (src/app.py): Events own Attendees; the handlers of the    *)
(* Flask routes are the actions.  The store is the two tables of the       *)
(* SQLite database; a request works on rows it loaded into its ORM session *)
(* and writes them back at db.session.commit().                            *)
(*                                                                         *)
(* JSON values are strings: JNull is JSON null / Python None, JTrue and    *)
(* JFalse the JSON booleans, every other string is a JSON string.  A       *)
(* payload (or the query string) is a function from the keys that are      *)
(* present to their values.                                                *)
(***************************************************************************)
EXTENDS Integers, Sequences, FiniteSets, TLC

VARIABLES events, attendees, clock, resp, req, pre, prev, sessions

vars == <<events, attendees, clock, resp, req, pre, prev, sessions>>

store == <<events, attendees, clock>>
hist == <<req, pre, prev>>

----------------------------------------------------------------------------
(* Bounds of the model *)

\* rows (events and attendees together) created in one behaviour of Spec;
\* created_at is the value of the clock at creation
MaxClock == 3
\* the same in SpecCascade
MaxCascadeRows == 5
\* the same in SpecEvents
MaxEventRows == 3
\* the same in SpecAttendees
MaxAttendeeRows == 3
\* the same in SpecList
MaxListRows == 3
\* the same in SpecConcurrent
MaxConcurrentRows == 2
\* requests in flight at once in SpecConcurrent
MaxSessions == 2

----------------------------------------------------------------------------
(* JSON / Python values *)

JNull == "<null>"
JTrue == "<true>"
JFalse == "<false>"

\* Python truthiness: bool(v), `if v`, `not v`
Truthy(v) == v \notin {JNull, JFalse, ""}

\* dict.get(key) and dict.get(key, default)
Get(payload, key) == IF key \in DOMAIN payload THEN payload[key] ELSE JNull
GetOr(payload, key, default) == IF key \in DOMAIN payload THEN payload[key] ELSE default

\* the empty dict: request.get_json(silent=True) or {}
NoPayload == [k \in {} |-> JNull]

VALID_CLASSIFICATIONS == {"Sponsor", "VIP", "Platino", "General"}

\* a DateTime column holds a datetime, here the integer yyyymmdd, or NULL
NullDT == 0

\* datetime.fromisoformat on the strings the requests carry; everything it
\* rejects, and every falsy value, is None
parse_datetime_or_none(value) ==
    IF ~Truthy(value) THEN NullDT
    ELSE CASE value = "2024-01-01" -> 20240101
           [] value = "2023-06-15T09:30" -> 20230615
           [] OTHER -> NullDT

\* datetime.isoformat()
isoformat(dt) ==
    CASE dt = 20240101 -> "2024-01-01T00:00:00"
      [] dt = 20230615 -> "2023-06-15T09:30:00"
      [] OTHER -> "?"

\* str.lower() on the values of the checked_in query parameter
lower(s) ==
    CASE s = "TRUE" -> "true"
      [] s = "Yes" -> "yes"
      [] s = "NO" -> "no"
      [] OTHER -> s

\* request.args.get(key, default=default, type=int)
get_int(args, key, default) ==
    LET s == Get(args, key)
    IN CASE s = "0" -> 0
         [] s = "1" -> 1
         [] s = "2" -> 2
         [] OTHER -> default

\* Event.title.ilike("%q%"): q occurs in title, letter case ignored
ilike(title, q) ==
    <<title, q>> \in {<<"Launch", "LAU">>, <<"Launch", "a">>, <<"Gala", "a">>}

----------------------------------------------------------------------------
(* Rows and their serialisation *)

Max(S) == CHOOSE x \in S : \A y \in S : y <= x

\* INTEGER PRIMARY KEY of SQLite: the largest rowid in the table plus one
NewId(table) == IF DOMAIN table = {} THEN 1 ELSE Max(DOMAIN table) + 1

\* Event.attendees without the join on event_id: every row of attendees
Event_attendees_unjoined(at, event_id) == DOMAIN at

\* Event.attendees: the rows of attendees whose event_id is the event's id
Event_attendees(at, event_id) == {a \in DOMAIN at : at[a].event_id = event_id}

Event_to_dict(ev, at, id) ==
    [id |-> id,
     title |-> ev[id].title,
     description |-> ev[id].description,
     location |-> ev[id].location,
     start_datetime |-> IF ev[id].start_datetime # NullDT
                        THEN isoformat(ev[id].start_datetime) ELSE JNull,
     created_at |-> ev[id].created_at,
     attendees_count |-> Cardinality(Event_attendees(at, id))]

Attendee_to_dict(at, id) ==
    [id |-> id,
     event_id |-> at[id].event_id,
     name |-> at[id].name,
     email |-> at[id].email,
     classification |-> at[id].classification,
     checked_in |-> at[id].checked_in,
     created_at |-> at[id].created_at]

\* the ids of S as a sequence, ascending by key (ties by id)
RECURSIVE OrderBy(_, _)
OrderBy(S, key) ==
    IF S = {} THEN <<>>
    ELSE LET m == CHOOSE x \in S : \A y \in S :
                     key[x] < key[y] \/ (key[x] = key[y] /\ x <= y)
         IN <<m>> \o OrderBy(S \ {m}, key)

\* a table without the rows of D
Without(table, D) == [i \in DOMAIN table \ D |-> table[i]]

\* a table with row id set to row
With(table, id, row) == [i \in DOMAIN table \cup {id} |-> IF i = id THEN row ELSE table[i]]

----------------------------------------------------------------------------
(* Responses *)

Response(status, kind, body) == [status |-> status, kind |-> kind, body |-> body]

\* the errorhandler(404) of get_or_404
not_found == Response(404, "error", "not found")

NoResponse == Response(0, "none", "")

Request(op, id, payload) == [op |-> op, id |-> id, payload |-> payload]

NoRequest == Request("none", 0, NoPayload)

NoCheckin == [id |-> 0, payload |-> NoPayload, status |-> 0, was |-> FALSE]

\* a request between its first query and its commit: the route, its
\* arguments, the checked_in of the row it loaded, the checked_in the row had
\* when it committed, and its response (the status, and the checked_in of the
\* Attendee it serialises)
Idle == [pc |-> "idle", op |-> "none", id |-> 0, payload |-> NoPayload,
         loaded |-> FALSE, found |-> FALSE, status |-> 0, checked_in |-> FALSE]

Sessions == 1..MaxSessions

Init ==
    /\ events = [i \in {} |-> 0]
    /\ attendees = [i \in {} |-> 0]
    /\ clock = 0
    /\ resp = NoResponse
    /\ req = NoRequest
    /\ pre = [events |-> events, attendees |-> attendees]
    /\ prev = NoCheckin
    /\ sessions = [s \in Sessions |-> Idle]

----------------------------------------------------------------------------
(* History of the requests served, kept for the properties *)

\* the request served and the store it found; for a check-in that follows a
\* check-in of the same attendee, that check-in and the checked_in it found
Record(r) ==
    /\ req' = r
    /\ pre' = [events |-> events, attendees |-> attendees]
    /\ prev' = IF r.op = "checkin_attendee" /\ req.op = "checkin_attendee" /\ r.id = req.id
               THEN [id |-> req.id, payload |-> req.payload, status |-> resp.status,
                     was |-> IF req.id \in DOMAIN pre.attendees
                             THEN pre.attendees[req.id].checked_in ELSE FALSE]
               ELSE NoCheckin
    /\ UNCHANGED sessions

----------------------------------------------------------------------------
(* Routes - Events *)

list_events(args) ==
    LET q == Get(args, "q")
        limit == get_int(args, "limit", 100)
        offset == get_int(args, "offset", 0)
        matching == IF Truthy(q) THEN {e \in DOMAIN events : ilike(events[e].title, q)}
                    ELSE DOMAIN events
        \* order_by(start_datetime.asc().nullslast())
        key == [e \in matching |-> IF events[e].start_datetime = NullDT THEN 99999999
                                   ELSE events[e].start_datetime]
        ordered == OrderBy(matching, key)
        last == IF offset + limit < Len(ordered) THEN offset + limit ELSE Len(ordered)
        window == SubSeq(ordered, offset + 1, last)
    IN /\ resp' = Response(200, "events",
                           [i \in 1..Len(window) |-> Event_to_dict(events, attendees, window[i])])
       /\ UNCHANGED store
       /\ Record(Request("list_events", 0, args))

get_event(event_id) ==
    /\ IF event_id \notin DOMAIN events THEN resp' = not_found
       ELSE LET owned == OrderBy(Event_attendees(attendees, event_id),
                                 [a \in DOMAIN attendees |-> a])
            IN resp' = Response(200, "event_detail",
                   [event |-> Event_to_dict(events, attendees, event_id),
                    attendees |-> [i \in 1..Len(owned) |-> Attendee_to_dict(attendees, owned[i])]])
    /\ UNCHANGED store
    /\ Record(Request("get_event", event_id, NoPayload))

create_event(payload) ==
    LET title == Get(payload, "title")
        id == NewId(events)
        new_event == [title |-> title,
                      description |-> GetOr(payload, "description", ""),
                      location |-> GetOr(payload, "location", ""),
                      start_datetime |-> parse_datetime_or_none(Get(payload, "start_datetime")),
                      created_at |-> clock + 1]
    IN /\ IF ~Truthy(title)
          THEN /\ resp' = Response(400, "error", "title is required")
               /\ UNCHANGED store
          ELSE /\ events' = With(events, id, new_event)
               /\ clock' = clock + 1
               /\ UNCHANGED attendees
               /\ resp' = Response(201, "event", Event_to_dict(events', attendees', id))
       /\ Record(Request("create_event", 0, payload))

\* update_event replacing the whole row: a field the request lacks gets the
\* default create_event gives it
update_event_row_replacing(e, payload) ==
    [title |-> IF Get(payload, "title") # JNull THEN Get(payload, "title") ELSE e.title,
     description |-> GetOr(payload, "description", ""),
     location |-> GetOr(payload, "location", ""),
     start_datetime |-> parse_datetime_or_none(Get(payload, "start_datetime")),
     created_at |-> e.created_at]

\* the row of update_event at its commit
update_event_row(e, payload) ==
    LET title == Get(payload, "title")
        e1 == IF title # JNull THEN [e EXCEPT !.title = title] ELSE e
        e2 == IF "description" \in DOMAIN payload
              THEN [e1 EXCEPT !.description = GetOr(payload, "description", "")] ELSE e1
        e3 == IF "location" \in DOMAIN payload
              THEN [e2 EXCEPT !.location = GetOr(payload, "location", "")] ELSE e2
    IN IF "start_datetime" \in DOMAIN payload
       THEN [e3 EXCEPT !.start_datetime = parse_datetime_or_none(Get(payload, "start_datetime"))]
       ELSE e3

update_event(event_id, payload) ==
    /\ IF event_id \notin DOMAIN events
       THEN /\ resp' = not_found
            /\ UNCHANGED store
       ELSE /\ events' = With(events, event_id, update_event_row(events[event_id], payload))
            /\ UNCHANGED <<attendees, clock>>
            /\ resp' = Response(200, "event", Event_to_dict(events', attendees', event_id))
    /\ Record(Request("update_event", event_id, payload))

\* the delete without the cascade of the relationship
delete_event_rows_no_cascade(event_id) ==
    /\ events' = Without(events, {event_id})
    /\ UNCHANGED <<attendees, clock>>

\* db.session.delete(e) and the commit: the delete cascades to e.attendees
delete_event_rows(event_id) ==
    /\ events' = Without(events, {event_id})
    /\ attendees' = Without(attendees, Event_attendees(attendees, event_id))
    /\ UNCHANGED clock

delete_event(event_id) ==
    /\ IF event_id \notin DOMAIN events
       THEN /\ resp' = not_found
            /\ UNCHANGED store
       ELSE /\ delete_event_rows(event_id)
            /\ resp' = Response(200, "message", "deleted")
    /\ Record(Request("delete_event", event_id, NoPayload))

----------------------------------------------------------------------------
(* Routes - Attendees *)

\* list_attendees without the filter on checked_in
list_attendees_query_unfiltered(event_id, args) ==
    LET classification == Get(args, "classification")
        q0 == {a \in DOMAIN attendees : attendees[a].event_id = event_id}
        q1 == IF Truthy(classification)
              THEN {a \in q0 : attendees[a].classification = classification} ELSE q0
    IN OrderBy(q1, [a \in DOMAIN attendees |-> attendees[a].created_at])

\* the rows list_attendees selects, in the order it returns them
list_attendees_query(event_id, args) ==
    LET classification == Get(args, "classification")
        checked_in == Get(args, "checked_in")
        q0 == {a \in DOMAIN attendees : attendees[a].event_id = event_id}
        q1 == IF Truthy(classification)
              THEN {a \in q0 : attendees[a].classification = classification} ELSE q0
        q2 == IF checked_in # JNull
              THEN IF lower(checked_in) \in {"true", "1", "yes"}
                   THEN {a \in q1 : attendees[a].checked_in}
                   ELSE IF lower(checked_in) \in {"false", "0", "no"}
                        THEN {a \in q1 : ~attendees[a].checked_in}
                        ELSE q1
              ELSE q1
    IN OrderBy(q2, [a \in DOMAIN attendees |-> attendees[a].created_at])

list_attendees(event_id, args) ==
    /\ IF event_id \notin DOMAIN events THEN resp' = not_found
       ELSE LET rows == list_attendees_query(event_id, args)
            IN resp' = Response(200, "attendees",
                                [i \in 1..Len(rows) |-> Attendee_to_dict(attendees, rows[i])])
    /\ UNCHANGED store
    /\ Record(Request("list_attendees", event_id, args))

get_attendee(attendee_id) ==
    /\ IF attendee_id \notin DOMAIN attendees THEN resp' = not_found
       ELSE resp' = Response(200, "attendee", Attendee_to_dict(attendees, attendee_id))
    /\ UNCHANGED store
    /\ Record(Request("get_attendee", attendee_id, NoPayload))

\* the validation of create_attendee without the check of classification
create_attendee_error_name_only(payload) ==
    IF ~Truthy(Get(payload, "name")) THEN "name is required" ELSE ""

\* the validation of create_attendee: the error it answers, "" when none
create_attendee_error(payload) ==
    IF ~Truthy(Get(payload, "name")) THEN "name is required"
    ELSE IF GetOr(payload, "classification", "General") \notin VALID_CLASSIFICATIONS
         THEN "classification must be one of VALID_CLASSIFICATIONS"
         ELSE ""

\* Attendee(event_id=..., name=..., email=..., classification=...)
new_attendee(event_id, payload) ==
    [event_id |-> event_id,
     name |-> Get(payload, "name"),
     email |-> GetOr(payload, "email", ""),
     classification |-> GetOr(payload, "classification", "General"),
     checked_in |-> FALSE,
     created_at |-> clock + 1]

create_attendee(event_id, payload) ==
    LET id == NewId(attendees)
    IN /\ IF event_id \notin DOMAIN events
          THEN /\ resp' = not_found
               /\ UNCHANGED store
          ELSE IF create_attendee_error(payload) # ""
               THEN /\ resp' = Response(400, "error", create_attendee_error(payload))
                    /\ UNCHANGED store
               ELSE /\ attendees' = With(attendees, id, new_attendee(event_id, payload))
                    /\ clock' = clock + 1
                    /\ UNCHANGED events
                    /\ resp' = Response(201, "attendee", Attendee_to_dict(attendees', id))
       /\ Record(Request("create_attendee", event_id, payload))

\* update_attendee on the row a of its session, up to its return: the row as
\* the session holds it then, and the error it returns ("" when it reaches
\* the commit)
update_attendee_session(a, payload) ==
    LET name_bad == "name" \in DOMAIN payload /\ ~Truthy(Get(payload, "name"))
        a1 == IF "name" \in DOMAIN payload /\ ~name_bad
              THEN [a EXCEPT !.name = Get(payload, "name")] ELSE a
        a2 == IF "email" \in DOMAIN payload
              THEN [a1 EXCEPT !.email = GetOr(payload, "email", "")] ELSE a1
        class_bad == "classification" \in DOMAIN payload
                     /\ Get(payload, "classification") \notin VALID_CLASSIFICATIONS
        a3 == IF "classification" \in DOMAIN payload /\ ~class_bad
              THEN [a2 EXCEPT !.classification = Get(payload, "classification")] ELSE a2
        a4 == IF "checked_in" \in DOMAIN payload
              THEN [a3 EXCEPT !.checked_in = Truthy(Get(payload, "checked_in"))] ELSE a3
    IN IF name_bad THEN [row |-> a, error |-> "name cannot be empty"]
       ELSE IF class_bad
            THEN [row |-> a2, error |-> "classification must be one of VALID_CLASSIFICATIONS"]
            ELSE [row |-> a4, error |-> ""]

\* update_attendee writing the session's row whether or not it reached the
\* commit
update_attendee_stored_flushed(a, payload) == update_attendee_session(a, payload).row

\* what update_attendee leaves in the table: the session's row once
\* committed; a request that returns before the commit writes nothing (its
\* session is discarded with the request)
update_attendee_stored(a, payload) ==
    IF update_attendee_session(a, payload).error = ""
    THEN update_attendee_session(a, payload).row
    ELSE a

update_attendee(attendee_id, payload) ==
    /\ IF attendee_id \notin DOMAIN attendees
       THEN /\ resp' = not_found
            /\ UNCHANGED store
       ELSE LET s == update_attendee_session(attendees[attendee_id], payload)
            IN /\ attendees' = With(attendees, attendee_id,
                                    update_attendee_stored(attendees[attendee_id], payload))
               /\ UNCHANGED <<events, clock>>
               /\ resp' = IF s.error # "" THEN Response(400, "error", s.error)
                          ELSE Response(200, "attendee", Attendee_to_dict(attendees', attendee_id))
    /\ Record(Request("update_attendee", attendee_id, payload))

delete_attendee(attendee_id) ==
    /\ IF attendee_id \notin DOMAIN attendees
       THEN /\ resp' = not_found
            /\ UNCHANGED store
       ELSE /\ attendees' = Without(attendees, {attendee_id})
            /\ UNCHANGED <<events, clock>>
            /\ resp' = Response(200, "message", "deleted")
    /\ Record(Request("delete_attendee", attendee_id, NoPayload))

\* a check-in that, given no value, checks the attendee in
checkin_value_sets(a, payload) ==
    IF "checked_in" \in DOMAIN payload THEN Truthy(Get(payload, "checked_in")) ELSE TRUE

\* the value checkin_attendee assigns to a.checked_in, a the row it loaded
checkin_value(a, payload) ==
    IF "checked_in" \in DOMAIN payload THEN Truthy(Get(payload, "checked_in"))
    ELSE ~a.checked_in

checkin_attendee(attendee_id, payload) ==
    /\ IF attendee_id \notin DOMAIN attendees
       THEN /\ resp' = not_found
            /\ UNCHANGED store
       ELSE /\ attendees' = [attendees EXCEPT ![attendee_id].checked_in =
                                checkin_value(attendees[attendee_id], payload)]
            /\ UNCHANGED <<events, clock>>
            /\ resp' = Response(200, "attendee", Attendee_to_dict(attendees', attendee_id))
    /\ Record(Request("checkin_attendee", attendee_id, payload))

----------------------------------------------------------------------------
(* The requests of the clients *)

\* the ids a request names: those of the rows stored, those below them
\* (of rows deleted), and the next one (of no row yet)
EventIds == 1..NewId(events)
AttendeeIds == 1..NewId(attendees)

(* Spec: every route, one or two payloads each *)

ListEventsArgs == {[q |-> "a", limit |-> "1"], [offset |-> "1"]}

EventPayloads == {[title |-> "Launch"]}

EventUpdates == {[title |-> "Gala"]}

ListAttendeesArgs == {NoPayload}

AttendeePayloads == {[name |-> "Ana"]}

AttendeeUpdates == {[name |-> "Bo"]}

CheckinPayloads == {NoPayload}

ListEvents == \E args \in ListEventsArgs : list_events(args)

GetEvent == \E id \in EventIds : get_event(id)

CreateEvent == \E payload \in EventPayloads :
    /\ clock < MaxClock
    /\ create_event(payload)

UpdateEvent == \E id \in EventIds, payload \in EventUpdates : update_event(id, payload)

DeleteEvent == \E id \in EventIds : delete_event(id)

ListAttendees == \E id \in EventIds, args \in ListAttendeesArgs : list_attendees(id, args)

GetAttendee == \E id \in AttendeeIds : get_attendee(id)

CreateAttendee == \E id \in EventIds, payload \in AttendeePayloads :
    /\ clock < MaxClock
    /\ create_attendee(id, payload)

UpdateAttendee == \E id \in AttendeeIds, payload \in AttendeeUpdates :
    update_attendee(id, payload)

DeleteAttendee == \E id \in AttendeeIds : delete_attendee(id)

CheckinAttendee == \E id \in AttendeeIds, payload \in CheckinPayloads :
    checkin_attendee(id, payload)

Next ==
    \/ ListEvents
    \/ GetEvent
    \/ CreateEvent
    \/ UpdateEvent
    \/ DeleteEvent
    \/ ListAttendees
    \/ GetAttendee
    \/ CreateAttendee
    \/ UpdateAttendee
    \/ DeleteAttendee
    \/ CheckinAttendee

Spec == Init /\ [][Next]_vars

----------------------------------------------------------------------------
(* attendees_count *)

\* the stored Attendees whose event_id is event_id
LiveCount(event_id) ==
    Cardinality({a \in DOMAIN attendees : attendees[a].event_id = event_id})

\* C6: the attendees_count an Event is serialised with (by create_event,
\* get_event, list_events or update_event) is the number of stored Attendees
\* whose event_id is that Event's id.
AttendeesCountIsLive ==
    /\ resp.kind = "event" => resp.body.attendees_count = LiveCount(resp.body.id)
    /\ resp.kind = "event_detail" =>
           resp.body.event.attendees_count = LiveCount(resp.body.event.id)
    /\ resp.kind = "events" =>
           \A i \in DOMAIN resp.body : resp.body[i].attendees_count = LiveCount(resp.body[i].id)

\* update_event serialises an Event that has two Attendees
AttendeesCountWitness ==
    /\ resp.kind = "event"
    /\ req.op = "update_event"
    /\ resp.body.attendees_count = 2

----------------------------------------------------------------------------
(* SpecCascade: the routes that create, delete and read Events and Attendees *)

CascadeCreateEvent ==
    /\ clock < MaxCascadeRows
    /\ create_event([title |-> "Launch"])

CascadeCreateAttendee == \E id \in EventIds :
    /\ clock < MaxCascadeRows
    /\ create_attendee(id, [name |-> "Ana"])

CascadeDeleteEvent == \E id \in EventIds : delete_event(id)

CascadeDeleteAttendee == \E id \in AttendeeIds : delete_attendee(id)

CascadeGetEvent == \E id \in EventIds : get_event(id)

CascadeGetAttendee == \E id \in AttendeeIds : get_attendee(id)

CascadeListAttendees == \E id \in EventIds : list_attendees(id, NoPayload)

NextCascade ==
    \/ CascadeCreateEvent
    \/ CascadeCreateAttendee
    \/ CascadeDeleteEvent
    \/ CascadeDeleteAttendee
    \/ CascadeGetEvent
    \/ CascadeGetAttendee
    \/ CascadeListAttendees

SpecCascade == Init /\ [][NextCascade]_vars

\* the Attendees of event_id in the table at
Owned(at, event_id) == {a \in DOMAIN at : at[a].event_id = event_id}

\* C1: after delete_event(e) succeeds the Event and every Attendee it owned
\* are gone and the Attendees of other Events are as they were; get_event,
\* get_attendee and list_attendees answer 404 for an id that is not stored
\* (list_attendees never an empty list).
DeleteCascades ==
    /\ (req.op = "delete_event" /\ resp.status = 200) =>
          /\ req.id \notin DOMAIN events
          /\ Owned(attendees, req.id) = {}
          /\ DOMAIN attendees = DOMAIN pre.attendees \ Owned(pre.attendees, req.id)
          /\ \A a \in DOMAIN attendees : attendees[a] = pre.attendees[a]
          /\ Without(events, {req.id}) = Without(pre.events, {req.id})
    /\ (req.op = "get_event" /\ req.id \notin DOMAIN events) => resp = not_found
    /\ (req.op = "list_attendees" /\ req.id \notin DOMAIN events) => resp = not_found
    /\ (req.op = "get_attendee" /\ req.id \notin DOMAIN attendees) => resp = not_found

\* delete_event has removed an Event that owned two Attendees, and an
\* Attendee of another Event is still stored
DeleteCascadesWitness ==
    /\ req.op = "delete_event"
    /\ resp.status = 200
    /\ Cardinality(Owned(pre.attendees, req.id)) = 2
    /\ attendees # pre.attendees
    /\ DOMAIN attendees # {}

----------------------------------------------------------------------------
(* SpecEvents: the Event routes with every shape of payload *)

\* create_event: no title, an empty title, a title alone, every field
CreateEventPayloads ==
    {NoPayload,
     [title |-> ""],
     [title |-> "Launch"],
     [title |-> "Launch", description |-> "desc", location |-> "hall",
      start_datetime |-> "2024-01-01"]}

\* update_event: nothing, the title (null, empty, set), the other fields,
\* a start_datetime that does not parse
UpdateEventPayloads ==
    {NoPayload,
     [title |-> JNull],
     [title |-> ""],
     [title |-> "Launch"],
     [description |-> "desc", location |-> "hall", start_datetime |-> "2024-01-01"],
     [start_datetime |-> "garbage"]}

EventsCreateEvent == \E payload \in CreateEventPayloads :
    /\ clock < MaxEventRows
    /\ create_event(payload)

EventsUpdateEvent == \E id \in EventIds, payload \in UpdateEventPayloads :
    update_event(id, payload)

EventsDeleteEvent == \E id \in EventIds : delete_event(id)

EventsCreateAttendee == \E id \in EventIds :
    /\ clock < MaxEventRows
    /\ create_attendee(id, [name |-> "Ana"])

NextEvents ==
    \/ EventsCreateEvent
    \/ EventsUpdateEvent
    \/ EventsDeleteEvent
    \/ EventsCreateAttendee

SpecEvents == Init /\ [][NextEvents]_vars

\* C3: create_event with a missing or empty title answers 400 and stores
\* nothing, and every stored Event has a non-empty title.
EventTitleNeverEmpty ==
    /\ (req.op = "create_event" /\ Get(req.payload, "title") \in {JNull, ""}) =>
          /\ resp.status = 400
          /\ events = pre.events
    /\ \A e \in DOMAIN events : events[e].title \notin {JNull, ""}

EventFields == {"title", "description", "location", "start_datetime"}

\* C8: update_event leaves every field the request lacks, the Event's id and
\* created_at, the Attendees and every other Event as they were.
UpdateEventIsPartial ==
    req.op = "update_event" =>
        /\ attendees = pre.attendees
        /\ DOMAIN events = DOMAIN pre.events
        /\ \A e \in DOMAIN events : e # req.id => events[e] = pre.events[e]
        /\ req.id \in DOMAIN events =>
              /\ events[req.id].created_at = pre.events[req.id].created_at
              /\ \A f \in EventFields \ DOMAIN req.payload :
                     events[req.id][f] = pre.events[req.id][f]

\* update_event has changed an Event that owns an Attendee, by a request
\* that lacks a field the Event has set, while another Event is stored
UpdateEventIsPartialWitness ==
    /\ req.op = "update_event"
    /\ resp.status = 200
    /\ events # pre.events
    /\ Cardinality(DOMAIN events) = 2
    /\ Owned(attendees, req.id) # {}
    /\ DOMAIN req.payload = {"start_datetime"}
    /\ events[req.id].description = "desc"

----------------------------------------------------------------------------
(* SpecAttendees: the routes that write Attendees, with every shape of payload *)

\* create_attendee: no name, an empty name, no classification, a
\* classification that is null, not allowed, allowed
CreateAttendeePayloads ==
    {NoPayload,
     [name |-> ""],
     [name |-> "Ana"],
     [name |-> "Ana", classification |-> JNull],
     [name |-> "Ana", classification |-> "Intern", email |-> "a@x"],
     [name |-> "Ana", classification |-> "VIP", email |-> "a@x"]}

\* update_attendee: nothing, an empty name, a classification not allowed
\* beside fields that are valid, valid fields alone
UpdateAttendeePayloads ==
    {NoPayload,
     [name |-> "", email |-> "b@x"],
     [name |-> "Bo", classification |-> "Intern"],
     [email |-> "b@x", classification |-> "Intern", checked_in |-> JTrue],
     [name |-> "Bo", classification |-> "Sponsor", checked_in |-> JTrue]}

CheckinPayloadsAll == {NoPayload, [checked_in |-> JTrue], [checked_in |-> JFalse]}

AttendeesCreateEvent ==
    /\ clock < MaxAttendeeRows
    /\ create_event([title |-> "Launch"])

AttendeesCreateAttendee == \E id \in EventIds, payload \in CreateAttendeePayloads :
    /\ clock < MaxAttendeeRows
    /\ create_attendee(id, payload)

AttendeesUpdateAttendee == \E id \in AttendeeIds, payload \in UpdateAttendeePayloads :
    update_attendee(id, payload)

AttendeesCheckinAttendee == \E id \in AttendeeIds, payload \in CheckinPayloadsAll :
    checkin_attendee(id, payload)

AttendeesDeleteAttendee == \E id \in AttendeeIds : delete_attendee(id)

NextAttendees ==
    \/ AttendeesCreateEvent
    \/ AttendeesCreateAttendee
    \/ AttendeesUpdateAttendee
    \/ AttendeesCheckinAttendee
    \/ AttendeesDeleteAttendee

SpecAttendees == Init /\ [][NextAttendees]_vars

\* C2: a check-in with no value negates checked_in, so the second of two
\* consecutive ones restores the value the first found; a check-in with the
\* boolean v sets checked_in to v, so the second of two consecutive ones with
\* the same v leaves the store as the first left it.
CheckinTogglesOrSets ==
    (req.op = "checkin_attendee" /\ resp.status = 200) =>
        /\ DOMAIN req.payload = {} =>
               attendees[req.id].checked_in = ~pre.attendees[req.id].checked_in
        /\ (DOMAIN req.payload = {} /\ prev.status = 200 /\ DOMAIN prev.payload = {}) =>
               attendees[req.id].checked_in = prev.was
        /\ "checked_in" \in DOMAIN req.payload =>
               attendees[req.id].checked_in = (req.payload["checked_in"] = JTrue)
        /\ ("checked_in" \in DOMAIN req.payload /\ prev.status = 200
            /\ prev.payload = req.payload) =>
               /\ attendees = pre.attendees
               /\ events = pre.events

\* two consecutive check-ins with no value of an Attendee that was checked in
CheckinTogglesOrSetsWitness ==
    /\ req.op = "checkin_attendee"
    /\ resp.status = 200
    /\ req.payload = NoPayload
    /\ prev.status = 200
    /\ prev.payload = NoPayload
    /\ prev.was

\* C4: create_attendee for a stored Event with a non-empty name: with no
\* classification it stores one Attendee more, General and not checked in;
\* with a classification that is not allowed it answers 400 and stores
\* nothing.
CreateAttendeeDefaultsAndRejects ==
    (req.op = "create_attendee" /\ req.id \in DOMAIN pre.events
     /\ Get(req.payload, "name") \notin {JNull, ""}) =>
        /\ "classification" \notin DOMAIN req.payload =>
              /\ resp.status = 201
              /\ resp.body.id \notin DOMAIN pre.attendees
              /\ attendees = With(pre.attendees, resp.body.id, attendees[resp.body.id])
              /\ attendees[resp.body.id].classification = "General"
              /\ attendees[resp.body.id].checked_in = FALSE
              /\ attendees[resp.body.id].event_id = req.id
        /\ ("classification" \in DOMAIN req.payload
            /\ req.payload["classification"] \notin {"Sponsor", "VIP", "Platino", "General"}) =>
              /\ resp.status = 400
              /\ attendees = pre.attendees
              /\ events = pre.events

\* create_attendee has refused classification Intern for an Event that owns
\* an Attendee stored with the default classification
CreateAttendeeWitness ==
    /\ req.op = "create_attendee"
    /\ resp.status = 400
    /\ Get(req.payload, "classification") = "Intern"
    /\ \E a \in Owned(attendees, req.id) : attendees[a].classification = "General"

\* C5: update_attendee with an empty name, or a classification that is not
\* allowed, answers 400 and leaves the store as it was, whatever else the
\* request carries.
UpdateAttendeeValidatesFirst ==
    (req.op = "update_attendee" /\ req.id \in DOMAIN pre.attendees
     /\ \/ ("name" \in DOMAIN req.payload /\ req.payload["name"] \in {JNull, ""})
        \/ ("classification" \in DOMAIN req.payload
            /\ req.payload["classification"] \notin {"Sponsor", "VIP", "Platino", "General"})) =>
        /\ resp.status = 400
        /\ attendees = pre.attendees
        /\ events = pre.events

\* update_attendee has refused a classification that came with a name other
\* than the stored one
UpdateAttendeeWitness ==
    /\ req.op = "update_attendee"
    /\ resp.status = 400
    /\ Get(req.payload, "classification") = "Intern"
    /\ "name" \in DOMAIN req.payload
    /\ req.payload["name"] # pre.attendees[req.id].name

----------------------------------------------------------------------------
(* SpecList: list_attendees with every shape of query string *)

ListArgs ==
    {NoPayload,
     [classification |-> "VIP"],
     [classification |-> ""],
     [classification |-> "Platino", checked_in |-> "true"],
     [classification |-> "General", checked_in |-> "0"]}
    \cup {[checked_in |-> v] :
            v \in {"true", "1", "yes", "false", "0", "no", "TRUE", "Yes", "NO", "maybe", ""}}

ListCreateEvent ==
    /\ clock < MaxListRows
    /\ create_event([title |-> "Launch"])

ListCreateAttendee ==
    \E id \in EventIds, payload \in {[name |-> "Ana"], [name |-> "Bo", classification |-> "VIP"]} :
        /\ clock < MaxListRows
        /\ create_attendee(id, payload)

ListCheckinAttendee == \E id \in AttendeeIds : checkin_attendee(id, NoPayload)

ListDeleteAttendee == \E id \in AttendeeIds : delete_attendee(id)

ListListAttendees == \E id \in EventIds, args \in ListArgs : list_attendees(id, args)

NextList ==
    \/ ListCreateEvent
    \/ ListCreateAttendee
    \/ ListCheckinAttendee
    \/ ListDeleteAttendee
    \/ ListListAttendees

SpecList == Init /\ [][NextList]_vars

\* the response lists exactly the Attendees of S, each as stored, in
\* ascending order of created_at
ListsExactly(S) ==
    /\ resp.status = 200
    /\ {resp.body[i].id : i \in DOMAIN resp.body} = S
    /\ \A i \in DOMAIN resp.body : resp.body[i] = Attendee_to_dict(attendees, resp.body[i].id)
    /\ \A i, j \in DOMAIN resp.body : i < j => resp.body[i].created_at < resp.body[j].created_at

\* C7 as stated: the classification given is matched exactly; checked_in
\* true/1/yes selects the checked in, false/0/no the others, any other value
\* is no filter.
ListAttendeesFiltersAsStated ==
    (req.op = "list_attendees" /\ req.id \in DOMAIN events) =>
        ListsExactly({a \in Owned(attendees, req.id) :
            /\ "classification" \in DOMAIN req.payload =>
                   attendees[a].classification = req.payload["classification"]
            /\ Get(req.payload, "checked_in") \in {"true", "1", "yes"} =>
                   attendees[a].checked_in
            /\ Get(req.payload, "checked_in") \in {"false", "0", "no"} =>
                   ~attendees[a].checked_in})

\* C7 as amended: an empty classification is no filter, and checked_in is
\* compared with true/1/yes and false/0/no ignoring letter case.
ListAttendeesFilters ==
    (req.op = "list_attendees" /\ req.id \in DOMAIN events) =>
        ListsExactly({a \in Owned(attendees, req.id) :
            /\ Get(req.payload, "classification") \notin {JNull, ""} =>
                   attendees[a].classification = req.payload["classification"]
            /\ Get(req.payload, "checked_in") \in {"true", "1", "yes", "TRUE", "Yes"} =>
                   attendees[a].checked_in
            /\ Get(req.payload, "checked_in") \in {"false", "0", "no", "NO"} =>
                   ~attendees[a].checked_in})

\* list_attendees, asked for checked_in=Yes, has listed the one Attendee of
\* the Event that is checked in and left out the one that is not
ListAttendeesWitness ==
    /\ req.op = "list_attendees"
    /\ resp.status = 200
    /\ Get(req.payload, "checked_in") = "Yes"
    /\ Len(resp.body) = 1
    /\ Cardinality(Owned(attendees, req.id)) = 2

----------------------------------------------------------------------------
(* SpecConcurrent: requests served by threads of their own.  Each has its  *)
(* own session; what it loaded stays as loaded until its commit, and the   *)
(* database runs one statement or one commit at a time.  SQLite checks no  *)
(* foreign key unless PRAGMA foreign_keys is set, which the program never  *)
(* does, so an INSERT of an Attendee does not look at events.              *)

Begin(s, op, id, payload, loaded) ==
    sessions' = [sessions EXCEPT ![s] =
        [pc |-> "loaded", op |-> op, id |-> id, payload |-> payload,
         loaded |-> loaded, found |-> FALSE, status |-> 0, checked_in |-> FALSE]]

Done(s, status, found, checked_in) ==
    sessions' = [sessions EXCEPT ![s].pc = "done", ![s].status = status,
                                 ![s].found = found, ![s].checked_in = checked_in]

\* get_or_404 of a row that is not stored: the request ends with the 404
Refuse(s, op, id, payload, status) ==
    sessions' = [sessions EXCEPT ![s] =
        [pc |-> "done", op |-> op, id |-> id, payload |-> payload,
         loaded |-> FALSE, found |-> FALSE, status |-> status, checked_in |-> FALSE]]

\* checkin_attendee up to Attendee.query.get_or_404
checkin_attendee_load(s, attendee_id, payload) ==
    /\ sessions[s].pc = "idle"
    /\ IF attendee_id \notin DOMAIN attendees
       THEN Refuse(s, "checkin_attendee", attendee_id, payload, 404)
       ELSE Begin(s, "checkin_attendee", attendee_id, payload, attendees[attendee_id].checked_in)
    /\ UNCHANGED <<store, resp, hist>>

\* a check-in that reads the row again at its commit and writes from that
checkin_attendee_commit_rereading(s) ==
    /\ sessions[s].pc = "loaded"
    /\ sessions[s].op = "checkin_attendee"
    /\ LET id == sessions[s].id
       IN IF id \notin DOMAIN attendees
          THEN /\ Done(s, 500, FALSE, FALSE)
               /\ UNCHANGED attendees
          ELSE /\ attendees' = [attendees EXCEPT ![id].checked_in =
                                   checkin_value(attendees[id], sessions[s].payload)]
               /\ Done(s, 200, attendees[id].checked_in, attendees'[id].checked_in)
    /\ UNCHANGED <<events, clock, resp, hist>>

\* checkin_attendee from the assignment to a.checked_in to its response: the
\* value is computed from the row as loaded, and the commit is an UPDATE of
\* the row by its id when that changed the attribute
checkin_attendee_commit(s) ==
    /\ sessions[s].pc = "loaded"
    /\ sessions[s].op = "checkin_attendee"
    /\ LET id == sessions[s].id
           value == checkin_value([checked_in |-> sessions[s].loaded], sessions[s].payload)
       IN IF id \notin DOMAIN attendees
          THEN \* the row is gone: StaleDataError, or ObjectDeletedError in to_dict
               /\ Done(s, 500, FALSE, FALSE)
               /\ UNCHANGED attendees
          ELSE /\ attendees' = IF value # sessions[s].loaded
                               THEN [attendees EXCEPT ![id].checked_in = value]
                               ELSE attendees
               /\ Done(s, 200, attendees[id].checked_in, attendees'[id].checked_in)
    /\ UNCHANGED <<events, clock, resp, hist>>

\* create_attendee up to its validation
create_attendee_load(s, event_id, payload) ==
    /\ sessions[s].pc = "idle"
    /\ IF event_id \notin DOMAIN events
       THEN Refuse(s, "create_attendee", event_id, payload, 404)
       ELSE IF create_attendee_error(payload) # ""
            THEN Refuse(s, "create_attendee", event_id, payload, 400)
            ELSE Begin(s, "create_attendee", event_id, payload, FALSE)
    /\ UNCHANGED <<store, resp, hist>>

\* create_attendee from Attendee(...) to its response: the INSERT
create_attendee_commit(s) ==
    /\ sessions[s].pc = "loaded"
    /\ sessions[s].op = "create_attendee"
    /\ attendees' = With(attendees, NewId(attendees),
                         new_attendee(sessions[s].id, sessions[s].payload))
    /\ clock' = clock + 1
    /\ Done(s, 201, FALSE, FALSE)
    /\ UNCHANGED <<events, resp, hist>>

\* delete_event up to Event.query.get_or_404
delete_event_load(s, event_id) ==
    /\ sessions[s].pc = "idle"
    /\ IF event_id \notin DOMAIN events
       THEN Refuse(s, "delete_event", event_id, NoPayload, 404)
       ELSE Begin(s, "delete_event", event_id, NoPayload, FALSE)
    /\ UNCHANGED <<store, resp, hist>>

\* delete_event from db.session.delete(e) to its response
delete_event_commit(s) ==
    /\ sessions[s].pc = "loaded"
    /\ sessions[s].op = "delete_event"
    /\ IF sessions[s].id \in DOMAIN events
       THEN /\ delete_event_rows(sessions[s].id)
            /\ Done(s, 200, FALSE, FALSE)
       ELSE \* the row is gone: StaleDataError, the transaction is rolled back
            /\ Done(s, 500, FALSE, FALSE)
            /\ UNCHANGED store
    /\ UNCHANGED <<resp, hist>>

\* the response is sent and the thread serves another request
respond(s) ==
    /\ sessions[s].pc = "done"
    /\ sessions' = [sessions EXCEPT ![s] = Idle]
    /\ UNCHANGED <<store, resp, hist>>

ConcurrentCreateEvent ==
    /\ clock < MaxConcurrentRows
    /\ create_event([title |-> "Launch"])

ConcurrentCheckinLoad ==
    \E s \in Sessions, id \in AttendeeIds, payload \in {NoPayload, [checked_in |-> JTrue]} :
        checkin_attendee_load(s, id, payload)

ConcurrentCheckinCommit == \E s \in Sessions : checkin_attendee_commit(s)

ConcurrentCreateAttendeeLoad ==
    \E s \in Sessions, id \in EventIds, payload \in {[name |-> "Ana"], [name |-> ""]} :
        create_attendee_load(s, id, payload)

ConcurrentCreateAttendeeCommit == \E s \in Sessions :
    /\ clock < MaxConcurrentRows
    /\ create_attendee_commit(s)

ConcurrentDeleteEventLoad == \E s \in Sessions, id \in EventIds : delete_event_load(s, id)

ConcurrentDeleteEventCommit == \E s \in Sessions : delete_event_commit(s)

ConcurrentRespond == \E s \in Sessions : respond(s)

NextConcurrent ==
    \/ ConcurrentCreateEvent
    \/ ConcurrentCheckinLoad
    \/ ConcurrentCheckinCommit
    \/ ConcurrentCreateAttendeeLoad
    \/ ConcurrentCreateAttendeeCommit
    \/ ConcurrentDeleteEventLoad
    \/ ConcurrentDeleteEventCommit
    \/ ConcurrentRespond

SpecConcurrent == Init /\ [][NextConcurrent]_vars

\* a check-in with no value that has been answered 200
Toggled(s) ==
    /\ sessions[s].pc = "done"
    /\ sessions[s].op = "checkin_attendee"
    /\ sessions[s].payload = NoPayload
    /\ sessions[s].status = 200

\* C9: a check-in with no value leaves checked_in the negation of the value
\* it read, whatever the row holds by the time it commits: when another
\* request has negated the row in between, the commit changes nothing and one
\* toggle is lost.
CheckinRaceLosesToggle ==
    \A s \in Sessions : Toggled(s) =>
        /\ sessions[s].checked_in = ~sessions[s].loaded
        /\ sessions[s].found # sessions[s].loaded => sessions[s].checked_in = sessions[s].found

\* two check-ins with no value of the same Attendee have read the same
\* checked_in, both have committed, the second on a row the first had
\* changed, and checked_in is toggled once
CheckinRaceWitness ==
    \E s, t \in Sessions :
        /\ s # t
        /\ Toggled(s)
        /\ Toggled(t)
        /\ sessions[s].id = sessions[t].id
        /\ sessions[s].loaded = sessions[t].loaded
        /\ sessions[s].found = sessions[s].loaded
        /\ sessions[t].found # sessions[t].loaded
        /\ sessions[s].id \in DOMAIN attendees
        /\ attendees[sessions[s].id].checked_in = ~sessions[s].loaded

\* C10: every stored Attendee's event_id is the id of a stored Event, also
\* when create_attendee and delete_event of that Event are served at once.
ReferentialIntegrity ==
    \A a \in DOMAIN attendees : attendees[a].event_id \in DOMAIN events

====
